---- MODULE Spec2Model ----
(***************************************************************************)
(* State-machine model of the account API views                            *)
(* (src/account/api/base/views.py).  Every handler is one action: the      *)
(* request inputs are drawn with \E; the stored User rows, the tokens in   *)
(* flight and the response of the last request are the state.  Handlers    *)
(* run one request at a time against the store.                            *)
(***************************************************************************)
EXTENDS Integers, Sequences, FiniteSets, TLC

(* ---------------- bounds of the model ---------------- *)
NumEmails == 2
NumPasswords == 1
MaxClock == 2
MaxRequests == 5

VARIABLES
    users,          \* the User table: users[pk] is the row
    clock,          \* the last value timezone.now() returned
    resetTokens,    \* password-reset tokens mailed by ForgetPasswordView
    emailTokens,    \* email-verification tokens mailed by send_verification_email
    refreshTokens,  \* refresh tokens handed out by get_tokens_for_user
    last,           \* the last request: the view, what it resolved, its response
    registered,     \* history: users created by RegisterAPIView
    validated,      \* history: users for whom email validation succeeded
    requests,       \* the number of requests handled so far
    revoked         \* history: reset tokens issued before a login / reset of their user

vars == <<users, clock, resetTokens, emailTokens, refreshTokens, last,
          registered, validated, requests, revoked>>

(* ---------------- values ---------------- *)
Emails == 1..NumEmails
Passwords == 1..NumPasswords
WeakPassword == 0 - 1
NoEmail == 0 - 1
None == 0 - 1
NoUser == 0
Anonymous == 0

UserIds == 1..Len(users)

(* A token is modelled by the inputs of its signature: the user id and,    *)
(* for reset tokens, the last_login it was signed over.  fresh = FALSE is   *)
(* the same token presented after its lifetime has run out.                *)
Token(kind, uid, ll) == [kind |-> kind, uid |-> uid, ll |-> ll, fresh |-> TRUE]
BadToken == [kind |-> "bad", uid |-> NoUser, ll |-> None, fresh |-> TRUE]
Expired(t) == [t EXCEPT !.fresh = FALSE]
Presentable(issued) == issued \cup {Expired(t) : t \in issued} \cup {BadToken}
Authentic(t, issued) == [t EXCEPT !.fresh = TRUE] \in issued

Effect(e, u) == [e |-> e, u |-> u]

(* The last request: who is the stored user the request resolved to;       *)
(* status, code, payload and tokens are the response; token is the token   *)
(* the request presented; effects are the handler's side effects in order. *)
Response(view, status, code, who, payload, tokens, token, effects) ==
    [view |-> view, status |-> status, code |-> code, who |-> who,
     payload |-> payload, tokens |-> tokens, token |-> token, effects |-> effects]

NoResponse == Response("none", 0, "none", NoUser, NoUser, NoUser, BadToken, <<>>)

Rejected(view, status, code, who, token) ==
    Response(view, status, code, who, NoUser, NoUser, token, <<>>)

(* ---------------- the User model ---------------- *)
NewUser(email, password) ==
    [email |-> email, password |-> password, active |-> TRUE,
     verified_email |-> FALSE, last_login |-> None]

UsersWithEmail(email) == {u \in UserIds : users[u].email = email}

UserByEmail(email) ==
    IF UsersWithEmail(email) = {} THEN NoUser
    ELSE CHOOSE u \in UsersWithEmail(email) : TRUE

is_active(user) == user.active

timezone_now == clock + 1

(* ---------------- permissions ---------------- *)
Principals == {Anonymous} \cup {u \in UserIds : is_active(users[u])}

IsAuthenticated(principal) == principal # Anonymous

(* Whether the request passes IsAuthenticated, for the views that do not   *)
(* use the identity of the caller.                                         *)
Authenticated == {IsAuthenticated(p) : p \in Principals}

NotAuthenticated(view) == Rejected(view, 401, "not_authenticated", NoUser, BadToken)

KeepStore == UNCHANGED <<users, clock, resetTokens, emailTokens, refreshTokens,
                         registered, validated, revoked>>

Init ==
    /\ users \in {<<>>} \cup
          {<<[email |-> 1, password |-> 1, active |-> a, verified_email |-> v,
              last_login |-> None]>> : a \in BOOLEAN, v \in BOOLEAN}
    /\ clock = 0
    /\ resetTokens = {}
    /\ emailTokens = {}
    /\ refreshTokens = {}
    /\ last = NoResponse
    /\ registered = {}
    /\ validated = {}
    /\ requests = 0
    /\ revoked = {}

(* ---------------- send_verification_email ---------------- *)
VerificationToken(uid) == Token("email", uid, None)

(* ---------------- LoginAPIView ---------------- *)
LoginSerializer_is_valid(email, password) ==
    \E u \in UsersWithEmail(email) : users[u].password = password

LoginOutcomeFallsThrough(user) ==
    IF is_active(user) /\ user.verified_email THEN "ok" ELSE "ACCOUNT_NOT_ACTIVE"

LoginOutcomeVerifiedFirst(user) ==
    IF ~user.verified_email THEN "EMAIL_NOT_VERIFIED"
    ELSE IF is_active(user) THEN "ok" ELSE "ACCOUNT_NOT_ACTIVE"

LoginOutcomeIgnoresVerified(user) ==
    IF is_active(user) THEN "ok" ELSE "ACCOUNT_NOT_ACTIVE"

LoginOutcome(user) ==
    IF is_active(user)
    THEN IF user.verified_email THEN "ok" ELSE "EMAIL_NOT_VERIFIED"
    ELSE "ACCOUNT_NOT_ACTIVE"

LoginKeepsLastLogin(user, now) == user

LoginUpdateLastLogin(user, now) == [user EXCEPT !.last_login = now]

LoginAPIView(email, password) ==
    LET u == UserByEmail(email)
    IN  IF ~LoginSerializer_is_valid(email, password)
        THEN /\ last' = Rejected("LoginAPIView", 400, "invalid", NoUser, BadToken)
             /\ KeepStore
        ELSE IF LoginOutcome(users[u]) = "ok"
        THEN /\ clock < MaxClock
             /\ users' = [users EXCEPT ![u] = LoginUpdateLastLogin(users[u], timezone_now)]
             /\ clock' = timezone_now
             /\ refreshTokens' = refreshTokens \cup {Token("refresh", u, None)}
             /\ revoked' = revoked \cup {t \in resetTokens : t.uid = u}
             /\ last' = Response("LoginAPIView", 200, "ok", u, u, u, BadToken,
                                 <<Effect("tokens", u), Effect("save", u)>>)
             /\ UNCHANGED <<resetTokens, emailTokens, registered, validated>>
        ELSE IF LoginOutcome(users[u]) = "EMAIL_NOT_VERIFIED"
        THEN /\ emailTokens' = emailTokens \cup {VerificationToken(u)}
             /\ last' = Response("LoginAPIView", 400, "EMAIL_NOT_VERIFIED", u, NoUser,
                                 NoUser, BadToken, <<Effect("verify_mail", u)>>)
             /\ UNCHANGED <<users, clock, resetTokens, refreshTokens,
                            registered, validated, revoked>>
        ELSE /\ last' = Rejected("LoginAPIView", 400, "ACCOUNT_NOT_ACTIVE", u, BadToken)
             /\ KeepStore

(* ---------------- RegisterAPIView ---------------- *)
(* Response(status='201'): the status is given as text and converted by    *)
(* int() when the response is built.                                       *)
RECURSIVE int_status(_)
int_status(digits) ==
    IF digits = <<>> THEN 0
    ELSE 10 * int_status(SubSeq(digits, 1, Len(digits) - 1)) + digits[Len(digits)]

RegisterStatus == <<2, 0, 1>>

RegisterSerializer_is_valid(email, password) ==
    /\ email # NoEmail
    /\ UsersWithEmail(email) = {}
    /\ password # WeakPassword

RegisterNeverRaises(valid) == FALSE

RegisterRaises(valid) == ~valid

RegisterMailsBeforeSave(uid) == <<Effect("verify_mail", uid), Effect("save", uid)>>

RegisterEffects(uid) == <<Effect("save", uid), Effect("verify_mail", uid)>>

RegisterAPIView(email, password) ==
    IF RegisterRaises(RegisterSerializer_is_valid(email, password))
    THEN /\ last' = Rejected("RegisterAPIView", 400, "invalid", UserByEmail(email), BadToken)
         /\ KeepStore
    ELSE LET uid == Len(users) + 1
         IN  /\ users' = Append(users, NewUser(email, password))
             /\ registered' = registered \cup {uid}
             /\ emailTokens' = emailTokens \cup {VerificationToken(uid)}
             /\ last' = Response("RegisterAPIView", int_status(RegisterStatus), "created", UserByEmail(email),
                                 uid, NoUser, BadToken, RegisterEffects(uid))
             /\ UNCHANGED <<clock, resetTokens, refreshTokens, validated, revoked>>

(* ---------------- ResendEmailVerificationView ---------------- *)
ResendEmailSerializer_is_valid(email) ==
    \E u \in UsersWithEmail(email) : ~users[u].verified_email

ResendEmailVerificationView(super, email) ==
    LET u == UserByEmail(email)
    IN  IF ~super
        THEN /\ last' = Rejected("ResendEmailVerificationView", 403, "permission_denied",
                                 NoUser, BadToken)
             /\ KeepStore
        ELSE IF ~ResendEmailSerializer_is_valid(email)
        THEN /\ last' = Rejected("ResendEmailVerificationView", 400, "invalid",
                                 NoUser, BadToken)
             /\ KeepStore
        ELSE /\ emailTokens' = emailTokens \cup {VerificationToken(u)}
             /\ last' = Response("ResendEmailVerificationView", 200,
                                 "Email sent successfully", u, NoUser, NoUser, BadToken,
                                 <<Effect("verify_mail", u)>>)
             /\ UNCHANGED <<users, clock, resetTokens, refreshTokens,
                            registered, validated, revoked>>

(* ---------------- ValidateEmailVerificationTokenView ---------------- *)
EmailTokenValidateSerializer_is_valid(t) ==
    /\ Authentic(t, emailTokens)
    /\ t.fresh
    /\ t.uid \in UserIds

SetVerifiedForgotten(user) == user

SetVerified(user) == [user EXCEPT !.verified_email = TRUE]

ValidateEmailVerificationTokenView(t) ==
    IF ~EmailTokenValidateSerializer_is_valid(t)
    THEN /\ last' = Rejected("ValidateEmailVerificationTokenView", 400, "invalid",
                             NoUser, t)
         /\ KeepStore
    ELSE /\ users' = [users EXCEPT ![t.uid] = SetVerified(users[t.uid])]
         /\ validated' = validated \cup {t.uid}
         /\ last' = Response("ValidateEmailVerificationTokenView", 200, "ok",
                             t.uid, t.uid, NoUser, t, <<Effect("save", t.uid)>>)
         /\ UNCHANGED <<clock, resetTokens, emailTokens, refreshTokens, registered, revoked>>

(* ---------------- password reset ---------------- *)
make_token(uid) == Token("reset", uid, users[uid].last_login)

check_token(uid, t) ==
    /\ uid \in UserIds
    /\ Authentic(t, resetTokens)
    /\ t.fresh
    /\ t.uid = uid
    /\ t.ll = users[uid].last_login

ForgetResponseLeaks(found) ==
    IF found
    THEN Response("ForgetPasswordView", 200, "Password reset email sent if the email exists",
                  NoUser, NoUser, NoUser, BadToken, <<>>)
    ELSE Response("ForgetPasswordView", 404, "not_found",
                  NoUser, NoUser, NoUser, BadToken, <<>>)

ForgetResponse(found) ==
    Response("ForgetPasswordView", 200, "Password reset email sent if the email exists",
             NoUser, NoUser, NoUser, BadToken, <<>>)

ForgetPasswordView(authed, email) ==
    LET u == UserByEmail(email)
        found == u # NoUser
    IN  IF ~authed
        THEN /\ last' = NotAuthenticated("ForgetPasswordView")
             /\ KeepStore
        ELSE IF found
        THEN /\ resetTokens' = resetTokens \cup {make_token(u)}
             /\ last' = [ForgetResponse(found) EXCEPT
                            !.who = u, !.effects = <<Effect("reset_mail", u)>>]
             /\ UNCHANGED <<users, clock, emailTokens, refreshTokens,
                            registered, validated, revoked>>
        ELSE /\ last' = ForgetResponse(found)
             /\ KeepStore

ValidateResetPasswordTokenView(authed, uid, t) ==
    IF ~authed
    THEN /\ last' = NotAuthenticated("ValidateResetPasswordTokenView")
         /\ KeepStore
    ELSE /\ last' = IF check_token(uid, t)
                    THEN Response("ValidateResetPasswordTokenView", 200, "Token is valid",
                                  uid, NoUser, NoUser, t, <<>>)
                    ELSE Rejected("ValidateResetPasswordTokenView", 400, "invalid",
                                  NoUser, t)
         /\ KeepStore

ResetPasswordSerializer_is_valid(uid, t, password) ==
    /\ check_token(uid, t)
    /\ password # WeakPassword

ResetPasswordSerializer_save(user, password) == [user EXCEPT !.password = password]

ResetKeepsLastLogin(user, now) == user

ResetUpdateLastLogin(user, now) == [user EXCEPT !.last_login = now]

ForgetResetPasswordView(authed, uid, t, password) ==
    IF ~authed
    THEN /\ last' = NotAuthenticated("ForgetResetPasswordView")
         /\ KeepStore
    ELSE IF ~ResetPasswordSerializer_is_valid(uid, t, password)
    THEN /\ last' = Rejected("ForgetResetPasswordView", 400, "invalid", NoUser, t)
         /\ KeepStore
    ELSE /\ clock < MaxClock
         /\ users' = [users EXCEPT ![uid] =
                         ResetUpdateLastLogin(
                             ResetPasswordSerializer_save(users[uid], password),
                             timezone_now)]
         /\ clock' = timezone_now
         /\ revoked' = revoked \cup {x \in resetTokens : x.uid = uid}
         /\ last' = Response("ForgetResetPasswordView", 200, "Password reset successful.",
                             uid, NoUser, NoUser, t,
                             <<Effect("save", uid), Effect("save", uid)>>)
         /\ UNCHANGED <<resetTokens, emailTokens, refreshTokens, registered, validated>>

(* ---------------- TokenRefreshAPIView ---------------- *)
TokenRefreshSerializer_is_valid(t) ==
    /\ Authentic(t, refreshTokens)
    /\ t.fresh

get_user_ok(uid) == uid \in UserIds /\ is_active(users[uid])

RefreshKeepsLastLogin(user, now) == user

RefreshUpdateLastLogin(user, now) == [user EXCEPT !.last_login = now]

TokenRefreshAPIView(authed, t) ==
    IF ~authed
    THEN /\ last' = NotAuthenticated("TokenRefreshAPIView")
         /\ KeepStore
    ELSE IF ~TokenRefreshSerializer_is_valid(t)
    THEN /\ last' = Rejected("TokenRefreshAPIView", 401, "token_not_valid", NoUser, t)
         /\ KeepStore
    ELSE IF ~get_user_ok(t.uid)
    THEN /\ last' = Rejected("TokenRefreshAPIView", 401, "user_inactive", NoUser, t)
         /\ KeepStore
    ELSE /\ clock < MaxClock
         /\ users' = [users EXCEPT ![t.uid] =
                         RefreshUpdateLastLogin(users[t.uid], timezone_now)]
         /\ clock' = timezone_now
         /\ last' = Response("TokenRefreshAPIView", 200, "ok", t.uid, NoUser, t.uid, t,
                             <<Effect("save", t.uid)>>)
         /\ UNCHANGED <<resetTokens, emailTokens, refreshTokens,
                        registered, validated, revoked>>

(* ---------------- ProfileAPIView ---------------- *)
(* The Profile rows are a table of their own that no other view reads:     *)
(* the patch is recorded as a write of the caller's profile.               *)
ProfileAPIView_patch(principal) ==
    IF ~IsAuthenticated(principal)
    THEN /\ last' = NotAuthenticated("ProfileAPIView")
         /\ KeepStore
    ELSE /\ last' = Response("ProfileAPIView", 200, "ok", principal, principal, NoUser,
                             BadToken, <<Effect("save_profile", principal)>>)
         /\ KeepStore

(* One request is handled at a time, and it is counted.                    *)
Count == requests < MaxRequests /\ requests' = requests + 1

Next ==
    \/ \E email \in Emails, password \in Passwords \cup {WeakPassword} :
          Count /\ LoginAPIView(email, password)
    \/ \E email \in Emails \cup {NoEmail}, password \in Passwords \cup {WeakPassword} :
          Count /\ RegisterAPIView(email, password)
    \/ \E super \in BOOLEAN, email \in Emails :
          Count /\ ResendEmailVerificationView(super, email)
    \/ \E t \in Presentable(emailTokens) :
          Count /\ ValidateEmailVerificationTokenView(t)
    \/ \E authed \in Authenticated, email \in Emails \cup {NoEmail} :
          Count /\ ForgetPasswordView(authed, email)
    \/ \E authed \in Authenticated, uid \in 0..Len(users), t \in Presentable(resetTokens) :
          Count /\ ValidateResetPasswordTokenView(authed, uid, t)
    \/ \E authed \in Authenticated, uid \in 0..Len(users), t \in Presentable(resetTokens),
          password \in Passwords \cup {WeakPassword} :
          Count /\ ForgetResetPasswordView(authed, uid, t, password)
    \/ \E authed \in Authenticated, t \in Presentable(refreshTokens) :
          Count /\ TokenRefreshAPIView(authed, t)
    \/ \E p \in Principals : Count /\ ProfileAPIView_patch(p)

Spec == Init /\ [][Next]_vars

(* ======================================================================= *)
(*                               Properties                                *)
(* ======================================================================= *)
Store == <<users, clock, resetTokens, emailTokens, refreshTokens>>

Mails(r, kind) == {i \in 1..Len(r.effects) : r.effects[i].e = kind}

ResetViews == {"ValidateResetPasswordTokenView", "ForgetResetPasswordView"}

C2_LoginSuccess ==
    [][ \A u \in UserIds :
           ( /\ last'.view = "LoginAPIView"
             /\ last'.who = u
             /\ is_active(users[u])
             /\ users[u].verified_email )
           => /\ last'.status = 200
              /\ last'.tokens = u
              /\ Token("refresh", u, None) \in refreshTokens'
              /\ last'.payload = u
              /\ users' = [users EXCEPT ![u].last_login = timezone_now]
              /\ clock' = timezone_now
              /\ emailTokens' = emailTokens
              /\ Mails(last', "verify_mail") = {}
      ]_vars

W2_LoginSucceeded ==
    /\ last.view = "LoginAPIView"
    /\ last.status = 200
    /\ last.who \in UserIds
    /\ users[last.who].last_login = clock
    /\ Len(users) = 2

(* C3: a login for an active user whose email is not verified answers 400  *)
(* EMAIL_NOT_VERIFIED, sends that user a verification email, issues no     *)
(* tokens and leaves last_login and verified_email as they were.           *)
C3_LoginUnverified ==
    [][ \A u \in UserIds :
           ( /\ last'.view = "LoginAPIView"
             /\ last'.who = u
             /\ is_active(users[u])
             /\ ~users[u].verified_email )
           => /\ last'.status = 400
              /\ last'.code = "EMAIL_NOT_VERIFIED"
              /\ last'.effects = <<Effect("verify_mail", u)>>
              /\ VerificationToken(u) \in emailTokens'
              /\ last'.tokens = NoUser
              /\ refreshTokens' = refreshTokens
              /\ users' = users
      ]_vars

W3_LoginUnverified ==
    /\ last.view = "LoginAPIView"
    /\ last.code = "EMAIL_NOT_VERIFIED"
    /\ last.who \in UserIds
    /\ ~users[last.who].verified_email
    /\ VerificationToken(last.who) \in emailTokens

(* C4: a login for an inactive user answers 400 ACCOUNT_NOT_ACTIVE whether *)
(* or not the email is verified, issues no tokens, sends no verification   *)
(* email and leaves last_login unchanged.                                  *)
C4_LoginInactive ==
    [][ \A u \in UserIds :
           ( /\ last'.view = "LoginAPIView"
             /\ last'.who = u
             /\ ~is_active(users[u]) )
           => /\ last'.status = 400
              /\ last'.code = "ACCOUNT_NOT_ACTIVE"
              /\ last'.tokens = NoUser
              /\ last'.effects = <<>>
              /\ UNCHANGED Store
      ]_vars

W4_LoginInactiveUnverified ==
    /\ last.view = "LoginAPIView"
    /\ last.code = "ACCOUNT_NOT_ACTIVE"
    /\ last.who \in UserIds
    /\ ~is_active(users[last.who])
    /\ ~users[last.who].verified_email

(* C5: ForgetPasswordView gives the same generic success response whether  *)
(* or not the email belongs to a user; for an email without a user it      *)
(* sends nothing, makes no token and changes no stored state.              *)
C5_ForgetIsUniform ==
    [][ ( /\ last'.view = "ForgetPasswordView"
          /\ last'.code # "not_authenticated" )
        => /\ last'.status = 200
           /\ last'.code = "Password reset email sent if the email exists"
           /\ last'.payload = NoUser
           /\ last'.tokens = NoUser
           /\ (last'.who = NoUser => (last'.effects = <<>> /\ UNCHANGED Store))
           /\ (last'.who # NoUser => Mails(last', "reset_mail") # {})
      ]_vars

W5_ForgetUnknownEmail ==
    /\ last.view = "ForgetPasswordView"
    /\ last.status = 200
    /\ last.who = NoUser
    /\ resetTokens # {}

(* C6: registering an email that already belongs to a user answers 400,    *)
(* creates no record, sends no email and leaves the existing user as it    *)
(* was; no two users ever share an email.                                  *)
C6_DuplicateEmailRejected ==
    [][ /\ ( /\ last'.view = "RegisterAPIView"
             /\ last'.who # NoUser )
           => /\ last'.status = 400
              /\ last'.effects = <<>>
              /\ UNCHANGED Store
        /\ \A u, v \in 1..Len(users') :
              u # v => users'[u].email # users'[v].email
      ]_vars

W6_DuplicateEmailRejected ==
    /\ last.view = "RegisterAPIView"
    /\ last.status = 400
    /\ last.who \in UserIds
    /\ Len(users) = 2

(* C7: a successful registration creates exactly one user, with            *)
(* verified_email false and active true, answers 201 with that user's      *)
(* payload and sends that user one verification email, after the save.     *)
C7_RegisterCreatesUser ==
    [][ ( /\ last'.view = "RegisterAPIView"
          /\ last'.status = 201 )
        => LET uid == Len(users) + 1
               mails == Mails(last', "verify_mail")
           IN  /\ Len(users') = uid
               /\ SubSeq(users', 1, Len(users)) = users
               /\ ~users'[uid].verified_email
               /\ users'[uid].active
               /\ last'.payload = uid
               /\ Cardinality(mails) = 1
               /\ \A i \in mails :
                     /\ last'.effects[i].u = uid
                     /\ \E j \in 1..(i - 1) : last'.effects[j] = Effect("save", uid)
               /\ VerificationToken(uid) \in emailTokens'
      ]_vars

W7_Registered ==
    /\ last.view = "RegisterAPIView"
    /\ last.status = 201
    /\ last.payload = Len(users)
    /\ Len(users) = 2
    /\ ~users[2].verified_email

(* C8: a refresh with a valid refresh token answers 200 with a new access  *)
(* token and sets last_login of the token's user to the current time; an   *)
(* invalid or expired one gets the invalid-token error (401) and nothing   *)
(* stored changes.                                                         *)
C8_TokenRefresh ==
    [][ ( /\ last'.view = "TokenRefreshAPIView"
          /\ last'.code # "not_authenticated" )
        => LET t == last'.token
           IN  IF t \in refreshTokens
               THEN /\ last'.status = 200
                    /\ last'.tokens = t.uid
                    /\ users' = [users EXCEPT ![t.uid].last_login = timezone_now]
                    /\ clock' = timezone_now
               ELSE /\ last'.status = 401
                    /\ last'.code = "token_not_valid"
                    /\ UNCHANGED Store
      ]_vars

W8_Refreshed ==
    /\ last.view = "TokenRefreshAPIView"
    /\ last.status = 200
    /\ last.token \in refreshTokens
    /\ users[last.token.uid].last_login = clock
    /\ clock = 2

(* C9: email validation with a valid token sets verified_email on exactly  *)
(* the token's user and returns that user; an invalid or expired token is  *)
(* rejected and changes nothing.  No other operation writes                *)
(* verified_email, and it never goes from true back to false.              *)
C9_VerifiedEmailMonotonic ==
    [][ /\ (last'.view = "ValidateEmailVerificationTokenView")
           => LET t == last'.token
              IN  IF t \in emailTokens
                  THEN /\ last'.status = 200
                       /\ last'.payload = t.uid
                       /\ users' = [users EXCEPT ![t.uid].verified_email = TRUE]
                  ELSE /\ last'.status = 400
                       /\ UNCHANGED Store
        /\ \A u \in UserIds :
              /\ users[u].verified_email => users'[u].verified_email
              /\ users'[u].verified_email # users[u].verified_email
                    => last'.view = "ValidateEmailVerificationTokenView"
      ]_vars

W9_Verified ==
    /\ last.view = "ProfileAPIView"
    /\ last.status = 200
    /\ last.who \in validated
    /\ last.who \in registered
    /\ users[last.who].verified_email
    /\ users[last.who].last_login # None

(* C10: a user created by registration gets no token pair from login       *)
(* before an email validation has succeeded for that user.                 *)
C10_VerifiedGate ==
    /\ \A u \in registered :
          Token("refresh", u, None) \in refreshTokens => u \in validated
    /\ ( /\ last.view = "LoginAPIView"
         /\ last.status = 200
         /\ last.who \in registered )
       => last.who \in validated

W10_LoginAfterValidation ==
    /\ last.view = "LoginAPIView"
    /\ last.status = 200
    /\ last.who \in registered
    /\ last.who \in validated
====
